---- MODULE Spec2Model ----
(***************************************************************************)
(* Model of src/src/backend.rs: SkiaBackend, the plotters DrawingBackend   *)
(* that forwards every drawing operation to a skia_safe Canvas.            *)
(*                                                                         *)
(* The adapter's own state is width, height and blend_mode.  The canvas is *)
(* an external object; the model keeps what the adapter does to it: the    *)
(* number of drawing calls issued so far and the most recent call with its *)
(* arguments (geometry and paint).  `ret` is the operation that ran last,  *)
(* with the arguments it was given and what it returned.                   *)
(***************************************************************************)
EXTENDS Integers, Sequences, FiniteSets, TLC

VARIABLES width, height, blend_mode, canvas, ret, ctor, last_set

vars == <<width, height, blend_mode, canvas, ret, ctor, last_set>>

(***************************************************************************)
(* Bounds and input samples                                                *)
(***************************************************************************)
\* Longest point sequence handed to draw_path / fill_polygon.
MaxPts == 2
\* Colour alphas are the rationals n / AlphaDen.
AlphaDen == 4
\* Drawing calls issued to one canvas before the model stops drawing.
MaxCalls == 2
\* Byte buffers handed to blit_bitmap hold up to MaxPixels whole pixels.
MaxPixels == 2

\* Option<T>
None == <<>>
Some(x) == <<x>>

Points == {<<0, 0>>, <<3, -1>>}
PixelPoints == {<<3, -1>>}
Segments == {<<<<0, 0>>, <<3, -1>>>>, <<<<3, -1>>, <<3, -1>>>>}
Corners == {<<<<0, 0>>, <<3, 2>>>>}
Centers == {<<3, -1>>}
Radii == {0, 2}
RGBs == <<<<255, 0, 128>>, <<1, 2, 3>>>>
\* alpha = n / AlphaDen; n < 0 and n > AlphaDen are alphas outside [0, 1]
Alphas == (-1)..(AlphaDen + 1)
\* BackendColor { alpha, rgb }: every alpha, the two rgb triples alternating
Colors == {[alpha |-> n, rgb |-> RGBs[1 + (n % 2)]] : n \in Alphas}
\* A style object: BackendStyle exposes color() and stroke_width(); `filled`
\* is the object's own fill preference, which the trait does not expose.
Styles ==
    {[color |-> [alpha |-> AlphaDen, rgb |-> RGBs[1]], stroke_width |-> 1,
      filled |-> FALSE],
     [color |-> [alpha |-> 1, rgb |-> RGBs[2]], stroke_width |-> 3,
      filled |-> TRUE]}
PointSeqs == UNION {[1..n -> Points] : n \in 0..MaxPts}
BlendModes == {"Multiply", "Screen"}
Sizes == {<<4, 3>>, <<0, 7>>}
BlitPositions == {<<0, 0>>}
\* (iw, ih) of blit_bitmap; 2^30 is the least iw for which iw * 4 leaves u32
ImageDims == {<<0, 1>>, <<1, 1>>, <<1, MaxPixels>>, <<2^30, 1>>}
BufferLens == {0, 4 * MaxPixels - 1, 4 * MaxPixels}

(***************************************************************************)
(* Numeric conversions                                                     *)
(***************************************************************************)
\* The power of two p with p <= n < 2p, for n >= 2^24 (n < 2^31).
Pow2Below(n) == CHOOSE p \in {2^k : k \in 24..30} : p <= n /\ n < 2 * p

\* `x as f32` for an integer x (u32 stroke width and radius, i32 coordinate):
\* exact below 2^24, rounded to a 24-bit significand (ties to even) above.
AsF32(x) ==
    LET n == IF x < 0 THEN -x ELSE x
        s == IF x < 0 THEN -1 ELSE 1
    IN  IF n < 2^24 THEN x
        ELSE LET u == Pow2Below(n) \div 2^23
                 q == n \div u
                 r == n % u
                 up == 2 * r > u \/ (2 * r = u /\ q % 2 = 1)
             IN  s * (IF up THEN (q + 1) * u ELSE q * u)

\* skia_safe Point from a BackendCoord (i32, i32)
Point(p) == <<AsF32(p[1]), AsF32(p[2])>>

\* Mutant of AlphaAsU8: the alpha is rounded to the nearest integer.
AlphaAsU8_rounding(n) ==
    IF n * 255 <= 0 THEN 0
    ELSE IF n * 255 >= 255 * AlphaDen THEN 255
    ELSE (2 * n * 255 + AlphaDen) \div (2 * AlphaDen)

\* `(color.alpha * 255.0) as u8` with color.alpha = n / AlphaDen: the float
\* to integer cast truncates toward zero and saturates at the ends of u8.
AlphaAsU8(n) ==
    IF n * 255 <= 0 THEN 0
    ELSE IF n * 255 >= 255 * AlphaDen THEN 255
    ELSE (n * 255) \div AlphaDen

\* Color::from_argb(a, r, g, b)
from_argb(a, r, g, b) == [a |-> a, r |-> r, g |-> g, b |-> b]

(***************************************************************************)
(* Paint                                                                   *)
(***************************************************************************)
\* Paint::default(): opaque black, hairline, filled, not anti-aliased, and no
\* blend mode set (source-over compositing).
PaintDefault ==
    [color |-> from_argb(255, 0, 0, 0), stroke_width |-> 0,
     anti_alias |-> FALSE, style |-> "Fill", blend_mode |-> None]

Paint_set_color(p, c) == [p EXCEPT !.color = c]
Paint_set_blend_mode(p, m) == [p EXCEPT !.blend_mode = Some(m)]
Paint_set_stroke_width(p, w) == [p EXCEPT !.stroke_width = w]
Paint_set_anti_alias(p, aa) == [p EXCEPT !.anti_alias = aa]
Paint_set_style(p, s) == [p EXCEPT !.style = s]

\* Mutant of paint: the adapter's blend mode is not applied.
paint_ignoring_blend_mode(bm, color) ==
    Paint_set_color(PaintDefault,
        from_argb(AlphaAsU8(color.alpha), color.rgb[1], color.rgb[2], color.rgb[3]))

\* SkiaBackend::paint(&self, color), self.blend_mode = bm
paint(bm, color) ==
    LET alpha == AlphaAsU8(color.alpha)
        c == from_argb(alpha, color.rgb[1], color.rgb[2], color.rgb[3])
        p == Paint_set_color(PaintDefault, c)
    IN  IF bm # None THEN Paint_set_blend_mode(p, bm[1]) ELSE p

\* Mutant of stroked_paint: anti-aliasing is left at the paint's default.
stroked_paint_no_anti_alias(bm, style) ==
    Paint_set_stroke_width(paint(bm, style.color), AsF32(style.stroke_width))

\* paint.set_stroke_width(style.stroke_width() as f32).set_anti_alias(true)
stroked_paint(bm, style) ==
    Paint_set_anti_alias(
        Paint_set_stroke_width(paint(bm, style.color), AsF32(style.stroke_width)),
        TRUE)

\* if fill { set_style(Fill) } else { set_style(Stroke) }
fill_or_stroke(p, fill) ==
    IF fill THEN Paint_set_style(p, "Fill") ELSE Paint_set_style(p, "Stroke")

(***************************************************************************)
(* Path                                                                    *)
(***************************************************************************)
\* Path::new()
Path_new == <<>>
Path_move_to(path, p) == Append(path, <<"move_to", Point(p)>>)
Path_line_to(path, p) == Append(path, <<"line_to", Point(p)>>)

\* for point in points { path.line_to(point) }, from the i-th point on
RECURSIVE line_to_rest(_, _, _)
line_to_rest(path, points, i) ==
    IF i > Len(points) THEN path
    ELSE line_to_rest(Path_line_to(path, points[i]), points, i + 1)

\* Mutant of build_path: a point equal to its predecessor is dropped.
RECURSIVE line_to_rest_dedup(_, _, _)
line_to_rest_dedup(path, points, i) ==
    IF i > Len(points) THEN path
    ELSE line_to_rest_dedup(
             IF points[i] = points[i - 1] THEN path ELSE Path_line_to(path, points[i]),
             points, i + 1)

build_path_dedup(points) ==
    IF Len(points) >= 1
    THEN line_to_rest_dedup(Path_move_to(Path_new, points[1]), points, 2)
    ELSE Path_new

\* The path draw_path_ builds from the point iterator.
build_path(points) ==
    IF Len(points) >= 1
    THEN line_to_rest(Path_move_to(Path_new, points[1]), points, 2)
    ELSE Path_new

(***************************************************************************)
(* Canvas calls                                                            *)
(***************************************************************************)
Call(kind, geom, p) == [kind |-> kind, geom |-> geom, paint |-> p]
NoCall == Call("none", <<>>, None)

\* One drawing call reaches the canvas.
Issue(call) ==
    /\ canvas.calls < MaxCalls
    /\ canvas' = [calls |-> canvas.calls + 1, last |-> call]

\* SkiaBackend::draw_path_(path, style, filled): the call it makes
draw_path_(bm, path, style, filled) ==
    Call("draw_path", build_path(path),
         Some(fill_or_stroke(stroked_paint(bm, style), filled)))

(***************************************************************************)
(* Results                                                                 *)
(***************************************************************************)
Ok == <<"Ok">>
DrawingError(e) == <<"Err", "DrawingError", e>>
Panic == <<"panic">>
\* Mutant of raster_error: the other variant of SkiaError.
raster_error_typeface == "Typeface"

\* .ok_or(DrawingErrorKind::DrawingError(SkiaError::ImageFromRaster))
raster_error == "ImageFromRaster"

Ret(op, args, value) == [op |-> op, args |-> args, value |-> value]

(***************************************************************************)
(* blit_bitmap's image construction                                        *)
(***************************************************************************)
\* `iw * 4` in u32: the product leaves u32 from iw = 2^30 on.
row_bytes_overflows(iw) == iw >= 2^30
\* The wrapped product (iw * 4) mod 2^32.
row_bytes_wrapped(iw) == (iw % 2^30) * 4

\* images::raster_from_data(&info, data, row_bytes) for an RGBA8888 info of
\* iw x ih and a data of len bytes: TRUE when it returns an image.  The
\* engine refuses empty and oversized dimensions, a row stride below one row
\* of pixels, and a buffer shorter than (ih - 1) * row_bytes + iw * 4.
raster_from_data(iw, ih, len, row_bytes) ==
    /\ iw > 0 /\ ih > 0
    /\ iw <= (2^29 - 1) /\ ih <= (2^29 - 1)
    /\ row_bytes >= iw * 4
    /\ len >= (ih - 1) * row_bytes + iw * 4

\* What blit_bitmap returns; overflow_checks is the build's setting for
\* arithmetic overflow (on: `iw * 4` panics, off: it wraps).
blit_bitmap_value(iw, ih, len, overflow_checks) ==
    IF row_bytes_overflows(iw) /\ overflow_checks THEN Panic
    ELSE IF raster_from_data(iw, ih, len, row_bytes_wrapped(iw)) THEN Ok
    ELSE DrawingError(raster_error)

(***************************************************************************)
(* State                                                                   *)
(***************************************************************************)
\* SkiaBackend::new(canvas, w, h)
new(w, h) == [width |-> w, height |-> h, blend_mode |-> None]

Init ==
    \E s \in Sizes :
        /\ width = new(s[1], s[2]).width
        /\ height = new(s[1], s[2]).height
        /\ blend_mode = new(s[1], s[2]).blend_mode
        /\ ctor = s
        /\ canvas = [calls |-> 0, last |-> NoCall]
        /\ ret = Ret("new", s, Ok)
        /\ last_set = None

adapter == <<width, height, blend_mode>>

(***************************************************************************)
(* Operations                                                              *)
(***************************************************************************)
set_blend_mode ==
    \E m \in {None} \cup {Some(b) : b \in BlendModes} :
        /\ blend_mode' = m
        /\ last_set' = Some(m)
        /\ ret' = Ret("set_blend_mode", m, <<"self">>)
        /\ UNCHANGED <<width, height, canvas, ctor>>

\* Mutant of get_size_value: the two dimensions swapped.
get_size_swapped == <<height, width>>

get_size_value == <<width, height>>

get_size ==
    /\ ret' = Ret("get_size", <<>>, get_size_value)
    /\ UNCHANGED <<adapter, canvas, ctor, last_set>>

ensure_prepared ==
    /\ ret' = Ret("ensure_prepared", <<>>, Ok)
    /\ UNCHANGED <<adapter, canvas, ctor, last_set>>

\* Mutant of present: presenting resets the blend mode.
present_resets_blend_mode ==
    /\ ret' = Ret("present", <<>>, Ok)
    /\ blend_mode' = None
    /\ UNCHANGED <<width, height, canvas, ctor, last_set>>

present ==
    /\ ret' = Ret("present", <<>>, Ok)
    /\ UNCHANGED <<adapter, canvas, ctor, last_set>>

draw_pixel ==
    \E point \in PixelPoints, color \in Colors :
        /\ Issue(Call("draw_point", <<Point(point)>>, Some(paint(blend_mode, color))))
        /\ ret' = Ret("draw_pixel", [point |-> point, color |-> color], Ok)
        /\ UNCHANGED <<adapter, ctor, last_set>>

draw_line ==
    \E seg \in Segments, style \in Styles :
        /\ Issue(Call("draw_line", <<Point(seg[1]), Point(seg[2])>>,
                      Some(stroked_paint(blend_mode, style))))
        /\ ret' = Ret("draw_line", [from |-> seg[1], to |-> seg[2], style |-> style], Ok)
        /\ UNCHANGED <<adapter, ctor, last_set>>

\* Rect::new(left, top, right, bottom) from the two corners
rect_of(upper_left, bottom_right) ==
    <<AsF32(upper_left[1]), AsF32(upper_left[2]),
      AsF32(bottom_right[1]), AsF32(bottom_right[2])>>

draw_rect ==
    \E c \in Corners, style \in Styles, fill \in BOOLEAN :
        /\ Issue(Call("draw_rect", rect_of(c[1], c[2]),
                      Some(fill_or_stroke(stroked_paint(blend_mode, style), fill))))
        /\ ret' = Ret("draw_rect",
                      [upper_left |-> c[1], bottom_right |-> c[2],
                       style |-> style, fill |-> fill], Ok)
        /\ UNCHANGED <<adapter, ctor, last_set>>

\* Mutant of draw_path: an empty point sequence issues no canvas call.
draw_path_skip_empty ==
    \E path \in PointSeqs, style \in Styles :
        /\ IF path = <<>>
           THEN UNCHANGED canvas
           ELSE Issue(draw_path_(blend_mode, path, style, FALSE))
        /\ ret' = Ret("draw_path", [path |-> path, style |-> style], Ok)
        /\ UNCHANGED <<adapter, ctor, last_set>>

draw_path ==
    \E path \in PointSeqs, style \in Styles :
        /\ Issue(draw_path_(blend_mode, path, style, FALSE))
        /\ ret' = Ret("draw_path", [path |-> path, style |-> style], Ok)
        /\ UNCHANGED <<adapter, ctor, last_set>>

draw_circle ==
    \E center \in Centers, radius \in Radii, style \in Styles, fill \in BOOLEAN :
        /\ Issue(Call("draw_circle", <<Point(center), AsF32(radius)>>,
                      Some(fill_or_stroke(stroked_paint(blend_mode, style), fill))))
        /\ ret' = Ret("draw_circle",
                      [center |-> center, radius |-> radius,
                       style |-> style, fill |-> fill], Ok)
        /\ UNCHANGED <<adapter, ctor, last_set>>

\* Mutant of fill_polygon: the style's own fill preference decides.
fill_polygon_by_style ==
    \E vert \in PointSeqs, style \in Styles :
        /\ Issue(draw_path_(blend_mode, vert, style, style.filled))
        /\ ret' = Ret("fill_polygon", [path |-> vert, style |-> style], Ok)
        /\ UNCHANGED <<adapter, ctor, last_set>>

fill_polygon ==
    \E vert \in PointSeqs, style \in Styles :
        /\ Issue(draw_path_(blend_mode, vert, style, TRUE))
        /\ ret' = Ret("fill_polygon", [path |-> vert, style |-> style], Ok)
        /\ UNCHANGED <<adapter, ctor, last_set>>

blit_bitmap ==
    \E pos \in BlitPositions, dim \in ImageDims, len \in BufferLens,
       overflow_checks \in BOOLEAN :
        LET iw == dim[1]
            ih == dim[2]
            value == blit_bitmap_value(iw, ih, len, overflow_checks)
            img == [width |-> iw, height |-> ih,
                    row_bytes |-> row_bytes_wrapped(iw), len |-> len]
        IN  /\ IF value = Ok
               THEN Issue(Call("draw_image", <<img, Point(pos)>>, None))
               ELSE UNCHANGED canvas
            /\ ret' = Ret("blit_bitmap",
                          [pos |-> pos, iw |-> iw, ih |-> ih, len |-> len], value)
            /\ UNCHANGED <<adapter, ctor, last_set>>

Next ==
    \/ set_blend_mode
    \/ get_size
    \/ ensure_prepared
    \/ present
    \/ draw_pixel
    \/ draw_line
    \/ draw_rect
    \/ draw_path
    \/ draw_circle
    \/ fill_polygon
    \/ blit_bitmap

Spec == Init /\ [][Next]_vars

(***************************************************************************)
(* Properties                                                              *)
(***************************************************************************)
\* The operations that build a paint and hand it to the canvas.
PaintOps ==
    {"draw_pixel", "draw_line", "draw_rect", "draw_path", "draw_circle",
     "fill_polygon"}
PathOps == {"draw_path", "fill_polygon"}
\* The operations that return Result<(), DrawingErrorKind<SkiaError>>.
ResultOps == PaintOps \cup {"ensure_prepared", "present", "blit_bitmap"}

\* The paint of the most recent canvas call.
LastPaint == canvas.last.paint[1]
\* The colour the last paint operation was given.
InputColor ==
    IF ret.op = "draw_pixel" THEN ret.args.color ELSE ret.args.style.color
\* a = floor(255 * n / AlphaDen), said without division
IsFloorOfAlpha(a, n) ==
    /\ a \in 0..255
    /\ a * AlphaDen <= 255 * n
    /\ 255 * n < (a + 1) * AlphaDen
\* The buffer of a blit_bitmap call is shorter than iw * ih * 4 bytes.
ShortBuffer(a) ==
    /\ a.iw > 0
    /\ a.ih > 0
    /\ ((a.len \div 4) \div a.iw) < a.ih
ImageFromRaster == DrawingError("ImageFromRaster")

\* C1: the paint of every draw call carries the blend mode of the most recent
\* set_blend_mode(Some(m)), and carries none when set_blend_mode was never
\* called or was last called with None.
C1_BlendModeOfLastSetter ==
    ret.op \in PaintOps =>
        /\ canvas.last.paint # None
        /\ LastPaint.blend_mode = (IF last_set = None THEN None ELSE last_set[1])

\* C1 witness: a draw_line that is not the first draw call, made after the
\* blend mode was cleared with set_blend_mode(None).
C1_Witness ==
    /\ ret.op = "draw_line"
    /\ canvas.calls >= 2
    /\ last_set = Some(None)
    /\ LastPaint.blend_mode = None

\* C2 (as claimed): blit_bitmap with a buffer shorter than iw * ih * 4 returns
\* DrawingError(ImageFromRaster) and leaves the canvas untouched.
C2_ShortBufferFails ==
    [][(ret'.op = "blit_bitmap" /\ ShortBuffer(ret'.args)) =>
           (ret'.value = ImageFromRaster /\ canvas' = canvas)]_vars

\* C3: only blit_bitmap returns an error, that error is ImageFromRaster, and
\* no operation produces Typeface; get_size returns a pair of dimensions.
C3_OnlyBlitFails ==
    /\ ret.op \in ResultOps \ {"blit_bitmap"} => ret.value = Ok
    /\ ret.op = "get_size" => ret.value \in Nat \X Nat
    /\ ret.op = "blit_bitmap" =>
           (ret.value[1] = "Err" => ret.value = ImageFromRaster)
    /\ ret.op \in ResultOps => ret.value # DrawingError("Typeface")

\* C3 witness: a blit_bitmap that returned the error.
C3_Witness == ret.op = "blit_bitmap" /\ ret.value = ImageFromRaster

C6_FillVersusStroke ==
    ret.op \in PathOps =>
        /\ canvas.last.kind = "draw_path"
        /\ LastPaint.style = (IF ret.op = "fill_polygon" THEN "Fill" ELSE "Stroke")
        /\ Len(canvas.last.geom) = Len(ret.args.path)
        /\ \A i \in 1..Len(ret.args.path) : canvas.last.geom[i][2] = ret.args.path[i]
        /\ IsFloorOfAlpha(LastPaint.color.a, ret.args.style.color.alpha)
        /\ <<LastPaint.color.r, LastPaint.color.g, LastPaint.color.b>>
               = ret.args.style.color.rgb
        /\ LastPaint.stroke_width = ret.args.style.stroke_width
        /\ LastPaint.anti_alias = TRUE
        /\ LastPaint.blend_mode = blend_mode

\* C6 witness: fill_polygon with a style that prefers not to be filled.
C6_Witness ==
    /\ ret.op = "fill_polygon"
    /\ ret.args.style.filled = FALSE
    /\ Len(ret.args.path) >= 2
    /\ LastPaint.style = "Fill"

\* C7: for N >= 1 points the path is move_to(p1), line_to(p2), ...,
\* line_to(pN): N verbs, the points in input order, none dropped or merged.
C7_PointsInOrder ==
    (ret.op \in PathOps /\ Len(ret.args.path) >= 1) =>
        /\ Len(canvas.last.geom) = Len(ret.args.path)
        /\ canvas.last.geom[1] = <<"move_to", ret.args.path[1]>>
        /\ \A i \in 2..Len(ret.args.path) :
               canvas.last.geom[i] = <<"line_to", ret.args.path[i]>>

\* C7 witness: two equal consecutive points, both in the path.
C7_Witness ==
    /\ ret.op \in PathOps
    /\ Len(ret.args.path) >= 2
    /\ ret.args.path[1] = ret.args.path[2]
    /\ Len(canvas.last.geom) = Len(ret.args.path)

\* C8 (as claimed): draw_path and fill_polygon with zero points issue no
\* call to the canvas and return success.
C8_EmptyIssuesNoCall ==
    [][(ret'.op \in PathOps /\ ret'.args.path = <<>>) =>
           (canvas' = canvas /\ ret'.value = Ok)]_vars

\* C8 (amended): with zero points they issue exactly one canvas call, a
\* draw_path of the empty path (no verbs), and return success.
C8_EmptyDrawsEmptyPath ==
    [][(ret'.op \in PathOps /\ ret'.args.path = <<>>) =>
           /\ canvas'.calls = canvas.calls + 1
           /\ canvas'.last.kind = "draw_path"
           /\ canvas'.last.geom = <<>>
           /\ ret'.value = Ok]_vars

\* C8 witness: a draw_path of zero points and the call it made.
C8_Witness ==
    /\ ret.op = "draw_path"
    /\ ret.args.path = <<>>
    /\ canvas.last.kind = "draw_path"
    /\ canvas.last.geom = <<>>

\* C9: width and height stay those given to new, get_size returns them, and
\* get_size changes neither the adapter nor the canvas.
C9_SizeIsConstructorSize ==
    /\ [](/\ <<width, height>> = ctor
          /\ ret.op = "get_size" => ret.value = ctor)
    /\ [][ret'.op = "get_size" => UNCHANGED <<adapter, canvas>>]_vars

\* C9 witness: get_size after drawing and after a blend mode was set.
C9_Witness ==
    /\ ret.op = "get_size"
    /\ canvas.calls >= 1
    /\ blend_mode # None
    /\ ret.value = ctor

\* C10: ensure_prepared and present return success and change neither the
\* canvas nor width, height and blend mode.
C10_LifecycleHooksAreNoOps ==
    [][ret'.op \in {"ensure_prepared", "present"} =>
           (ret'.value = Ok /\ UNCHANGED <<width, height, blend_mode, canvas>>)]_vars

\* C10 witness: present after drawing with a blend mode set.
C10_Witness ==
    /\ ret.op = "present"
    /\ canvas.calls >= 1
    /\ blend_mode # None

====
